---- MODULE Spec2Model ----
(***************************************************************************)
(* Model of server.py: the GLPI REST pass-through tools.                   *)
(*                                                                         *)
(* Strings that the code takes apart or puts together (base_url, paths,    *)
(* request URLs) are sequences of tokens: "/" is the slash character and   *)
(* every other token stands for a run of non-slash characters.  Tokens and *)
(* names that the code only passes along are TLA+ strings.                 *)
(*                                                                         *)
(* Every tool invocation is a task.  A task is split where the code        *)
(* awaits: entering the tool (Invoke), entering the HTTP client and        *)
(* issuing the request (Send), the network answering (Respond,             *)
(* TransportFail), and then the lines after the await, one action per      *)
(* line: raise_for_status, json, logger.error, raise.                      *)
(***************************************************************************)
EXTENDS Integers, Sequences, FiniteSets, TLC

VARIABLES pc, args, glpi, call, sent, resp, exc, outcome, log, trace, applied

vars == <<pc, args, glpi, call, sent, resp, exc, outcome, log, trace, applied>>

(* ---------------------------- bounds ----------------------------------- *)
MaxBaseLen == 2
NumTasks == 2

Tasks == 1..NumTasks

(* ---------------------------- strings ---------------------------------- *)
\* Variant: only one trailing slash is removed.
rstripOnce(s) ==
    IF s # <<>> /\ s[Len(s)] = "/" THEN SubSeq(s, 1, Len(s) - 1) ELSE s

RECURSIVE rstrip(_)
rstrip(s) ==
    IF s # <<>> /\ s[Len(s)] = "/" THEN rstrip(SubSeq(s, 1, Len(s) - 1)) ELSE s

Digit(d) == <<"0", "1", "2", "3", "4", "5", "6", "7", "8", "9">>[d + 1]

RECURSIVE NatToStr(_)
NatToStr(n) == IF n < 10 THEN <<Digit(n)>> ELSE Append(NatToStr(n \div 10), Digit(n % 10))

IntToStr(n) == IF n < 0 THEN <<"-">> \o NatToStr(-n) ELSE NatToStr(n)

(* ---------------------------- inputs ----------------------------------- *)
Tools == {"init_session", "list_tickets", "get_ticket", "create_ticket",
          "update_ticket", "delete_ticket", "get_users", "get_computers",
          "get_groups", "add_computer"}

IdTools == {"get_ticket", "update_ticket", "delete_ticket"}
NameTools == {"create_ticket", "add_computer"}

BaseChars == {"h", "/"}

RECURSIVE SeqsUpTo(_, _)
SeqsUpTo(S, n) ==
    IF n = 0 THEN {<<>>}
    ELSE LET shorter == SeqsUpTo(S, n - 1)
         IN shorter \cup {Append(s, c) : s \in {t \in shorter : Len(t) = n - 1}, c \in S}

BaseUrls == SeqsUpTo(BaseChars, MaxBaseLen)
AppTokens == {"a1", "a2"}
SessionTokens == {"s1", "s2"}
TicketIds == {0, 42}
Names == {"Printer broken"}
Contents == {"Toner empty", ""}
UpdateFields == {[status |-> 5], [status |-> 2, priority |-> 4]}

NoFields == [none |-> TRUE]

MkArgs(tool, b, a, t, id, n, c, f) ==
    [tool |-> tool, base_url |-> b, app_token |-> a, token |-> t,
     ticket_id |-> id, name |-> n, content |-> c, update_fields |-> f]

NoArgs == MkArgs("", <<>>, "", "", 0, "", "", NoFields)

ArgsOver(B, A, T, I, N, C, F) ==
         {MkArgs(tool, b, a, t, 0, "", "", NoFields) :
             tool \in Tools \ (IdTools \cup NameTools), b \in B, a \in A, t \in T}
    \cup {MkArgs(tool, b, a, t, id, "", "", NoFields) :
             tool \in {"get_ticket", "delete_ticket"}, b \in B, a \in A, t \in T, id \in I}
    \cup {MkArgs(tool, b, a, t, 0, n, c, NoFields) :
             tool \in NameTools, b \in B, a \in A, t \in T, n \in N, c \in C}
    \cup {MkArgs("update_ticket", b, a, t, id, "", "", f) :
             b \in B, a \in A, t \in T, id \in I, f \in F}

FullArgs(i) ==
    ArgsOver(BaseUrls, AppTokens, SessionTokens, TicketIds, Names, Contents, UpdateFields)

\* Concurrent callers: task i brings its own base_url and its own tokens.
OwnBase(i) == <<"h", IntToStr(i)[1]>>
OwnApp(i) == "a" \o ToString(i)
OwnToken(i) == "s" \o ToString(i)

OwnArgs(i) ==
    {a \in ArgsOver({OwnBase(i)}, {OwnApp(i)}, {OwnToken(i)}, {42},
                    Names, {"Toner empty"}, {[status |-> 5]}) :
        a.tool \in {"init_session", "get_ticket", "create_ticket"}}

(* ---------------------------- values ----------------------------------- *)
\* A decoded JSON value: an object or an array, with its members in order.
JsonValue(t, kv) == [t |-> t, kv |-> kv]
NoValue == JsonValue("none", <<>>)

\* Response bodies as text, and what Response.json() makes of each.
Bodies == {"{\"session_token\": \"s1\"}", "[{\"id\": 42}]", "", "<html>"}

\* Variant: an empty body is taken for a JSON null.
DecodableOrEmpty(body) == body \in {"{\"session_token\": \"s1\"}", "[{\"id\": 42}]", ""}

Decodable(body) == body \in {"{\"session_token\": \"s1\"}", "[{\"id\": 42}]"}

JsonDecode(body) ==
    CASE body = "{\"session_token\": \"s1\"}" -> JsonValue("object", <<<<"session_token", "s1">>>>)
      [] body = "[{\"id\": 42}]" -> JsonValue("array", <<<<"id", "42">>>>)
      [] OTHER -> NoValue

Statuses == {200, 201, 302, 401, 500}

\* Variant: only 4xx and 5xx count as failures.
is_success_below_400(status) == status >= 200 /\ status <= 399

is_success(status) == status >= 200 /\ status <= 299

NoResp == [kind |-> "none", status |-> 0, body |-> ""]
Response(status, body) == [kind |-> "response", status |-> status, body |-> body]

Responses(i) == {Response(s, b) : s \in Statuses, b \in Bodies}
OwnResponses(i) == {Response(200, "[{\"id\": 42}]"), Response(200, ""), Response(401, "<html>")}

\* Exceptions.  str(HTTPStatusError) names the status and the request URL;
\* transport and decode errors carry no URL.
NoErr == [type |-> "none", status |-> 0, url |-> <<>>]
HTTPStatusError(status, url) == [type |-> "HTTPStatusError", status |-> status, url |-> <<url>>]
TransportError == [type |-> "TransportError", status |-> 0, url |-> <<>>]
JSONDecodeError == [type |-> "JSONDecodeError", status |-> 0, url |-> <<>>]

NoOutcome == [kind |-> "none", value |-> NoValue, err |-> NoErr]
Returned(v) == [kind |-> "returned", value |-> v, err |-> NoErr]
Raised(e) == [kind |-> "raised", value |-> NoValue, err |-> e]

(* ---------------------------- GLPIClient ------------------------------- *)
NoHeaders == [h \in {} |-> ""]
NoClient == [base_url |-> <<>>, headers |-> NoHeaders]

GLPIClient(base_url, app_token, session_token) ==
    [base_url |-> rstrip(base_url),
     headers |-> [h \in {"App-Token", "Session-Token", "Content-Type"} |->
                    CASE h = "App-Token" -> app_token
                      [] h = "Session-Token" -> session_token
                      [] OTHER -> "application/json"]]

\* Variant: the Authorization header carries the bare token.
InitSessionLocalsBare(base_url, app_token, user_token) ==
    [base_url |-> rstrip(base_url) \o <<"/", "apirest.php", "/", "initSession">>,
     headers |-> [h \in {"App-Token", "Authorization", "Content-Type"} |->
                    CASE h = "App-Token" -> app_token
                      [] h = "Authorization" -> user_token
                      [] OTHER -> "application/json"]]

\* init_session keeps its url and headers in locals instead of a client.
InitSessionLocals(base_url, app_token, user_token) ==
    [base_url |-> rstrip(base_url) \o <<"/", "apirest.php", "/", "initSession">>,
     headers |-> [h \in {"App-Token", "Authorization", "Content-Type"} |->
                    CASE h = "App-Token" -> app_token
                      [] h = "Authorization" -> "user_token " \o user_token
                      [] OTHER -> "application/json"]]

\* The verb call each tool makes on its client: verb, path, JSON body.
NoCall == [verb |-> "", path |-> <<>>, data |-> <<>>]
VerbCall(verb, path, data) == [verb |-> verb, path |-> path, data |-> data]

ApiPath(resource) == <<"/", "apirest.php", "/", resource>>

NameContent(a) == [input |-> [name |-> a.name, content |-> a.content]]

\* Variant: add_computer posts to the ticket collection.
ToolCallTicketPath(a) ==
    CASE a.tool = "init_session" -> VerbCall("GET", <<>>, <<>>)
      [] a.tool \in {"list_tickets", "get_users", "get_computers", "get_groups"} ->
            VerbCall("GET", ApiPath(CASE a.tool = "list_tickets" -> "Ticket"
                                      [] a.tool = "get_users" -> "User"
                                      [] a.tool = "get_computers" -> "Computer"
                                      [] OTHER -> "Group"), <<>>)
      [] a.tool \in IdTools ->
            VerbCall(CASE a.tool = "get_ticket" -> "GET"
                       [] a.tool = "update_ticket" -> "PUT"
                       [] OTHER -> "DELETE",
                     ApiPath("Ticket") \o <<"/">> \o IntToStr(a.ticket_id),
                     IF a.tool = "update_ticket" THEN <<[input |-> a.update_fields]>> ELSE <<>>)
      [] OTHER -> VerbCall("POST", ApiPath("Ticket"), <<NameContent(a)>>)

ToolCall(a) ==
    CASE a.tool = "init_session" -> VerbCall("GET", <<>>, <<>>)
      [] a.tool = "list_tickets" -> VerbCall("GET", ApiPath("Ticket"), <<>>)
      [] a.tool = "get_ticket" ->
            VerbCall("GET", ApiPath("Ticket") \o <<"/">> \o IntToStr(a.ticket_id), <<>>)
      [] a.tool = "create_ticket" -> VerbCall("POST", ApiPath("Ticket"), <<NameContent(a)>>)
      [] a.tool = "update_ticket" ->
            VerbCall("PUT", ApiPath("Ticket") \o <<"/">> \o IntToStr(a.ticket_id),
                     <<[input |-> a.update_fields]>>)
      [] a.tool = "delete_ticket" ->
            VerbCall("DELETE", ApiPath("Ticket") \o <<"/">> \o IntToStr(a.ticket_id), <<>>)
      [] a.tool = "get_users" -> VerbCall("GET", ApiPath("User"), <<>>)
      [] a.tool = "get_computers" -> VerbCall("GET", ApiPath("Computer"), <<>>)
      [] a.tool = "get_groups" -> VerbCall("GET", ApiPath("Group"), <<>>)
      [] a.tool = "add_computer" -> VerbCall("POST", ApiPath("Computer"), <<NameContent(a)>>)

ToolClient(a) ==
    IF a.tool = "init_session"
    THEN InitSessionLocals(a.base_url, a.app_token, a.token)
    ELSE GLPIClient(a.base_url, a.app_token, a.token)

\* Variant: one client object shared by every invocation.
SelfShared(clients, i) == clients[CHOOSE j \in DOMAIN clients : clients[j] # NoClient]

\* The object a task's HTTP step reads its base_url and headers from.
Self(clients, i) == clients[i]

Request(self, c) ==
    [verb |-> c.verb, url |-> self.base_url \o c.path, headers |-> self.headers,
     body |-> c.data, params |-> <<>>]

\* Variant: the log line names the base of the URL only.
LogLineNoPath(tool, verb, url, e) ==
    IF tool = "init_session"
    THEN [prefix |-> "init_session failed: ", url |-> <<>>, err |-> e]
    ELSE [prefix |-> verb, url |-> <<SubSeq(url, 1, Len(url) - 1)>>, err |-> e]

\* logger.error(...) in the client's except blocks and in init_session's.
LogLine(tool, verb, url, e) ==
    IF tool = "init_session"
    THEN [prefix |-> "init_session failed: ", url |-> <<>>, err |-> e]
    ELSE [prefix |-> verb, url |-> <<url>>, err |-> e]

\* The bare raise of the except block: the caught exception goes on.
Reraise(e) == e

\* Variant: init_session picks the first member out of the payload.
ReturnValueExtract(tool, v) ==
    IF tool = "init_session" /\ v.t = "object" THEN JsonValue("string", <<v.kv[1]>>) ELSE v

\* return resp.json(), handed on by the tool's return await.
ReturnValue(tool, v) == v

(* ---------------------------- state ------------------------------------ *)
Init ==
    /\ pc = [i \in Tasks |-> "idle"]
    /\ args = [i \in Tasks |-> NoArgs]
    /\ glpi = [i \in Tasks |-> NoClient]
    /\ call = [i \in Tasks |-> NoCall]
    /\ sent = [i \in Tasks |-> <<>>]
    /\ resp = [i \in Tasks |-> NoResp]
    /\ exc = [i \in Tasks |-> NoErr]
    /\ outcome = [i \in Tasks |-> NoOutcome]
    /\ log = <<>>
    /\ trace = [i \in Tasks |-> <<>>]
    /\ applied = [i \in Tasks |-> FALSE]

\* The tool is called: it builds its client (or its locals) and its payload.
Invoke(i, a) ==
    /\ pc[i] = "idle"
    /\ args' = [args EXCEPT ![i] = a]
    /\ glpi' = [glpi EXCEPT ![i] = ToolClient(a)]
    /\ call' = [call EXCEPT ![i] = ToolCall(a)]
    /\ pc' = [pc EXCEPT ![i] = "call"]
    /\ UNCHANGED <<sent, resp, exc, outcome, log, trace, applied>>

\* async with httpx.AsyncClient(): url = f"{self.base_url}{path}"; await client.<verb>(...)
Send(i) ==
    /\ pc[i] = "call"
    /\ sent' = [sent EXCEPT ![i] = Append(@, Request(Self(glpi, i), call[i]))]
    /\ trace' = [trace EXCEPT ![i] = Append(@, "send")]
    /\ pc' = [pc EXCEPT ![i] = "await"]
    /\ UNCHANGED <<args, glpi, call, resp, exc, outcome, log, applied>>

Mutating(verb) == verb \in {"POST", "PUT", "DELETE"}

\* The remote system answers; a 2xx answer means it accepted the request.
Respond(i, r) ==
    /\ pc[i] = "await"
    /\ resp' = [resp EXCEPT ![i] = r]
    /\ applied' = [applied EXCEPT ![i] = is_success(r.status) /\ Mutating(call[i].verb)]
    /\ pc' = [pc EXCEPT ![i] = "status"]
    /\ UNCHANGED <<args, glpi, call, sent, exc, outcome, log, trace>>

\* The await itself raises: DNS, refused connection, timeout.  The request may
\* or may not have reached the remote system.
TransportFail(i) ==
    /\ pc[i] = "await"
    /\ exc' = [exc EXCEPT ![i] = TransportError]
    /\ \E reached \in BOOLEAN :
          applied' = [applied EXCEPT ![i] = reached /\ Mutating(call[i].verb)]
    /\ pc' = [pc EXCEPT ![i] = "except"]
    /\ UNCHANGED <<args, glpi, call, sent, resp, outcome, log, trace>>

\* resp.raise_for_status()
RaiseForStatus(i) ==
    /\ pc[i] = "status"
    /\ trace' = [trace EXCEPT ![i] = Append(@, "status")]
    /\ IF is_success(resp[i].status)
       THEN /\ pc' = [pc EXCEPT ![i] = "json"]
            /\ exc' = exc
       ELSE /\ pc' = [pc EXCEPT ![i] = "except"]
            /\ exc' = [exc EXCEPT ![i] = HTTPStatusError(resp[i].status, sent[i][Len(sent[i])].url)]
    /\ UNCHANGED <<args, glpi, call, sent, resp, outcome, log, applied>>

\* return resp.json()
Json(i) ==
    /\ pc[i] = "json"
    /\ IF Decodable(resp[i].body)
       THEN /\ pc' = [pc EXCEPT ![i] = "returned"]
            /\ outcome' = [outcome EXCEPT ![i] =
                             Returned(ReturnValue(args[i].tool, JsonDecode(resp[i].body)))]
            /\ trace' = [trace EXCEPT ![i] = @ \o <<"decode", "return">>]
            /\ exc' = exc
       ELSE /\ pc' = [pc EXCEPT ![i] = "except"]
            /\ exc' = [exc EXCEPT ![i] = JSONDecodeError]
            /\ trace' = [trace EXCEPT ![i] = Append(@, "decode")]
            /\ outcome' = outcome
    /\ UNCHANGED <<args, glpi, call, sent, resp, log, applied>>

\* Variant: after logging, a failed call is tried once more.
LogErrorRetry(i) ==
    /\ pc[i] = "except"
    /\ log' = Append(log, LogLine(args[i].tool, call[i].verb, sent[i][Len(sent[i])].url, exc[i]))
    /\ trace' = [trace EXCEPT ![i] = Append(@, "log")]
    /\ pc' = [pc EXCEPT ![i] = IF Len(sent[i]) < 2 THEN "call" ELSE "raise"]
    /\ UNCHANGED <<args, glpi, call, sent, resp, exc, outcome, applied>>

\* except Exception as e: logger.error(...)
LogError(i) ==
    /\ pc[i] = "except"
    /\ log' = Append(log, LogLine(args[i].tool, call[i].verb, sent[i][Len(sent[i])].url, exc[i]))
    /\ trace' = [trace EXCEPT ![i] = Append(@, "log")]
    /\ pc' = [pc EXCEPT ![i] = "raise"]
    /\ UNCHANGED <<args, glpi, call, sent, resp, exc, outcome, applied>>

\* raise
Raise(i) ==
    /\ pc[i] = "raise"
    /\ outcome' = [outcome EXCEPT ![i] = Raised(Reraise(exc[i]))]
    /\ trace' = [trace EXCEPT ![i] = Append(@, "raise")]
    /\ pc' = [pc EXCEPT ![i] = "raised"]
    /\ UNCHANGED <<args, glpi, call, sent, resp, exc, log, applied>>

Step(i, A, R) ==
    \/ \E a \in A : Invoke(i, a)
    \/ Send(i)
    \/ \E r \in R : Respond(i, r)
    \/ TransportFail(i)
    \/ RaiseForStatus(i)
    \/ Json(i)
    \/ LogError(i)
    \/ Raise(i)

\* One invocation at a time, over every tool and argument tuple.
Next == Step(1, FullArgs(1), Responses(1))

Spec == Init /\ [][Next]_vars

\* Several invocations in flight, each with its own credentials.
NextConc == \E i \in Tasks : Step(i, OwnArgs(i), OwnResponses(i))

SpecConc == Init /\ [][NextConc]_vars

(* ======================= properties ==================================== *)
Done(i) == pc[i] \in {"returned", "raised"}

Req(i) == sent[i][1]

IsResourceTool(i) == args[i].tool \in Tools \ {"init_session"}

\* p is b without its trailing slashes, said without rstrip.
NormalizedOf(p, b) ==
    /\ Len(p) <= Len(b)
    /\ SubSeq(b, 1, Len(p)) = p
    /\ p = <<>> \/ p[Len(p)] # "/"
    /\ \A k \in (Len(p) + 1)..Len(b) : b[k] = "/"

\* u is the normalized b followed by suffix.
UrlIs(u, b, suffix) ==
    /\ Len(u) >= Len(suffix)
    /\ SubSeq(u, Len(u) - Len(suffix) + 1, Len(u)) = suffix
    /\ NormalizedOf(SubSeq(u, 1, Len(u) - Len(suffix)), b)

IdText == (0 :> <<"0">>) @@ (42 :> <<"4", "2">>)

\* The tool table of the specification.
TableVerb(tool) ==
    CASE tool \in {"list_tickets", "get_ticket", "get_users", "get_computers", "get_groups"} -> "GET"
      [] tool \in {"create_ticket", "add_computer"} -> "POST"
      [] tool = "update_ticket" -> "PUT"
      [] tool = "delete_ticket" -> "DELETE"
      [] OTHER -> "GET"

TablePath(a) ==
    CASE a.tool = "list_tickets" -> <<"/", "Ticket">>
      [] a.tool \in IdTools -> <<"/", "Ticket", "/">> \o IdText[a.ticket_id]
      [] a.tool = "create_ticket" -> <<"/", "Ticket">>
      [] a.tool = "get_users" -> <<"/", "User">>
      [] a.tool \in {"get_computers", "add_computer"} -> <<"/", "Computer">>
      [] a.tool = "get_groups" -> <<"/", "Group">>
      [] OTHER -> <<"/", "initSession">>

TableBody(a) ==
    CASE a.tool \in NameTools -> <<[input |-> [name |-> a.name, content |-> a.content]]>>
      [] a.tool = "update_ticket" -> <<[input |-> a.update_fields]>>
      [] OTHER -> <<>>

\* The error the failing HTTP call of task i raised, read off the network.
OwnError(i) ==
    CASE resp[i].kind = "none" -> TransportError
      [] ~(resp[i].status \in 200..299) -> HTTPStatusError(resp[i].status, Req(i).url)
      [] OTHER -> JSONDecodeError

(* C1: every invocation issues exactly one HTTP request before it completes, *)
(* whatever the outcome: never more than one at any time, and exactly one    *)
(* once it has returned or raised.                                           *)
C1_ExactlyOneRequest ==
    \A i \in Tasks :
        /\ Len(sent[i]) <= 1
        /\ pc[i] \notin {"idle", "call"} => Len(sent[i]) = 1

C1_Witness ==
    \E i \in Tasks :
        /\ pc[i] = "raised"
        /\ outcome[i].err.type = "JSONDecodeError"
        /\ args[i].tool = "add_computer"
        /\ Len(sent[i]) = 1

(* C2: a non-2xx answer or a transport failure ends the invocation with the  *)
(* error of the failing HTTP call raised unchanged and no value returned;    *)
(* a value is returned only on a 2xx answer.                                 *)
C2_FailureRaises ==
    \A i \in Tasks :
        /\ outcome[i].kind = "returned" => resp[i].kind = "response" /\ resp[i].status \in 200..299
        /\ (Done(i) /\ (resp[i].kind = "none" \/ ~(resp[i].status \in 200..299))) =>
              /\ pc[i] = "raised"
              /\ outcome[i].kind = "raised"
              /\ outcome[i].value = NoValue
              /\ outcome[i].err = OwnError(i)

C2_Witness ==
    \E i \in Tasks :
        /\ pc[i] = "raised"
        /\ resp[i].status = 401
        /\ call[i].verb = "PUT"
        /\ outcome[i].err.type = "HTTPStatusError"

(* C3: each resource tool sends the verb, path and payload of the tool      *)
(* table, to normalized base_url + /apirest.php + path; GET and DELETE      *)
(* tools send no body.                                                      *)
C3_ToolTable ==
    \A i \in Tasks :
        (sent[i] # <<>> /\ IsResourceTool(i)) =>
            /\ Req(i).verb = TableVerb(args[i].tool)
            /\ UrlIs(Req(i).url, args[i].base_url, <<"/", "apirest.php">> \o TablePath(args[i]))
            /\ Req(i).body = TableBody(args[i])
            /\ Req(i).verb \in {"GET", "DELETE"} => Req(i).body = <<>>

C3_Witness ==
    \E i \in Tasks :
        /\ sent[i] # <<>>
        /\ args[i].tool = "update_ticket"
        /\ args[i].ticket_id = 42
        /\ args[i].base_url = <<"h", "/">>
        /\ Req(i).url = <<"h", "/", "apirest.php", "/", "Ticket", "/", "4", "2">>
        /\ Req(i).body = <<[input |-> [status |-> 5]]>>

(* C4: init_session sends one GET to base_url/apirest.php/initSession with  *)
(* exactly App-Token, Authorization ("user_token " + user_token) and        *)
(* Content-Type, no body, no query parameters; every Resource Client        *)
(* request carries exactly App-Token, Session-Token and Content-Type.       *)
C4_Headers ==
    \A i \in Tasks :
        sent[i] # <<>> =>
            /\ Req(i).headers["App-Token"] = args[i].app_token
            /\ Req(i).headers["Content-Type"] = "application/json"
            /\ IF args[i].tool = "init_session"
               THEN /\ Len(sent[i]) = 1
                    /\ Req(i).verb = "GET"
                    /\ UrlIs(Req(i).url, args[i].base_url, <<"/", "apirest.php", "/", "initSession">>)
                    /\ DOMAIN Req(i).headers = {"App-Token", "Authorization", "Content-Type"}
                    /\ Req(i).headers["Authorization"] = "user_token " \o args[i].token
                    /\ Req(i).body = <<>>
                    /\ Req(i).params = <<>>
               ELSE /\ DOMAIN Req(i).headers = {"App-Token", "Session-Token", "Content-Type"}
                    /\ Req(i).headers["Session-Token"] = args[i].token

C4_Witness ==
    \E i \in Tasks :
        /\ sent[i] # <<>>
        /\ args[i].tool = "init_session"
        /\ args[i].token = "s2"
        /\ Req(i).headers["Authorization"] = "user_token s2"

\* The URL the code sends for the argument tuple a.
UrlOf(a) == Request(ToolClient(a), ToolCall(a)).url

WithBase(a, b) == [a EXCEPT !.base_url = b]

BaseOf(u) == SubSeq(u, 1, (CHOOSE k \in 1..Len(u) : u[k] = "apirest.php") - 2)

(* C5: a base_url with a trailing slash gives the same request URL as the   *)
(* one without; normalization is idempotent, is the same in init_session    *)
(* and in the Resource Client, and leaves no "//" before /apirest.php.      *)
C5_TrailingSlash ==
    \A i \in Tasks :
        sent[i] # <<>> =>
            LET a == args[i]
                u == Req(i).url
                k == CHOOSE n \in 1..Len(u) : u[n] = "apirest.php"
            IN /\ UrlOf(WithBase(a, Append(a.base_url, "/"))) = u
               /\ UrlOf(WithBase(a, BaseOf(u))) = u
               /\ k >= 2 /\ u[k - 1] = "/"
               /\ k >= 3 => u[k - 2] # "/"
               /\ BaseOf(UrlOf([a EXCEPT !.tool = "init_session"])) = BaseOf(u)
               /\ BaseOf(UrlOf([a EXCEPT !.tool = "list_tickets"])) = BaseOf(u)

C5_Witness ==
    \E i \in Tasks :
        /\ sent[i] # <<>>
        /\ args[i].base_url = <<"h", "/">>
        /\ args[i].tool = "get_users"
        /\ Req(i).url = <<"h", "/", "apirest.php", "/", "User">>

(* C6: with several invocations in flight, every request carries the        *)
(* base_url and tokens of its own invocation, and every result or error is  *)
(* the one its own request produced.                                        *)
C6_NoInterference ==
    \A i \in Tasks :
        /\ sent[i] # <<>> =>
              /\ SubSeq(Req(i).url, 1, 2) = OwnBase(i)
              /\ Req(i).headers["App-Token"] = OwnApp(i)
              /\ IF args[i].tool = "init_session"
                 THEN Req(i).headers["Authorization"] = "user_token " \o OwnToken(i)
                 ELSE Req(i).headers["Session-Token"] = OwnToken(i)
        /\ pc[i] = "returned" => outcome[i] = Returned(JsonDecode(resp[i].body))
        /\ pc[i] = "raised" => outcome[i] = Raised(OwnError(i))
        /\ \A k \in 1..Len(log) :
              log[k].url # <<>> => \E j \in Tasks : sent[j] # <<>> /\ log[k].url = <<Req(j).url>>

C6_Witness ==
    \E i, j \in Tasks :
        /\ i # j
        /\ pc[i] = "await"
        /\ pc[j] = "raised"
        /\ args[i].tool = "get_ticket"
        /\ args[j].tool = "get_ticket"
        /\ Req(i).headers["Session-Token"] # Req(j).headers["Session-Token"]
        /\ Req(i).url # Req(j).url

Before(t, x, y) ==
    \A n \in 1..Len(t) : t[n] = y => \E m \in 1..(n - 1) : t[m] = x

Count(t, x) == Cardinality({n \in 1..Len(t) : t[n] = x})

(* C8: a failed get/post/put/delete writes exactly one log line, naming the *)
(* verb, the full request URL and the underlying error, before the error    *)
(* reaches the caller; a successful one writes none.                        *)
C8_LogOnFailure ==
    \A i \in Tasks :
        IsResourceTool(i) =>
            /\ pc[i] = "raised" =>
                  /\ Len(log) = 1
                  /\ log[1].prefix = TableVerb(args[i].tool)
                  /\ log[1].url = <<Req(i).url>>
                  /\ log[1].err = OwnError(i)
                  /\ Count(trace[i], "log") = 1
            /\ outcome[i].kind = "raised" => Len(log) = 1
            /\ Before(trace[i], "log", "raise")
            /\ pc[i] = "returned" => log = <<>> /\ Count(trace[i], "log") = 0

C8_Witness ==
    \E i \in Tasks :
        /\ pc[i] = "raised"
        /\ args[i].tool = "delete_ticket"
        /\ resp[i].status = 500
        /\ log = <<[prefix |-> "DELETE", url |-> <<Req(i).url>>,
                    err |-> HTTPStatusError(500, Req(i).url)]>>

\* A log line names the URL u: in its own text or in its error's text.
NamesUrl(line, u) == line.url = <<u>> \/ line.err.url = <<u>>

(* C9: whenever init_session fails, the failure is logged with the failing  *)
(* URL and re-raised unchanged, with no retry and no fallback.              *)
C9_InitSessionFailure ==
    \A i \in Tasks :
        (args[i].tool = "init_session" /\ pc[i] = "raised") =>
            /\ Len(log) = 1
            /\ NamesUrl(log[1], Req(i).url)
            /\ outcome[i] = Raised(OwnError(i))
            /\ Len(sent[i]) = 1

(* C10: the steps run in the order send, status check, decode, return; the  *)
(* body of a non-2xx response is never decoded or returned; a 2xx response  *)
(* with an undecodable body ends in a logged error although the remote      *)
(* system accepted the request.                                             *)
C10_Order ==
    \A i \in Tasks :
        /\ Before(trace[i], "send", "status")
        /\ Before(trace[i], "status", "decode")
        /\ Before(trace[i], "decode", "return")
        /\ Count(trace[i], "decode") > 0 => resp[i].status \in 200..299
        /\ outcome[i].kind = "returned" => resp[i].status \in 200..299
        /\ (Done(i) /\ resp[i].status \in 200..299 /\ resp[i].body \in {"", "<html>"}) =>
              /\ outcome[i] = Raised(JSONDecodeError)
              /\ Len(log) = 1 /\ log[1].err = JSONDecodeError
              /\ call[i].verb \in {"POST", "PUT", "DELETE"} => applied[i]

C10_Witness ==
    \E i \in Tasks :
        /\ pc[i] = "raised"
        /\ args[i].tool = "delete_ticket"
        /\ resp[i] = Response(200, "")
        /\ outcome[i].kind = "raised"
        /\ applied[i]

====
